---------------------------- MODULE Spec2Model ----------------------------
(***************************************************************************)
(* Model of the two MCP tool servers of aws-common-mcp-servers:            *)
(*   src/mcp_servers/s3/s3_server.py                                       *)
(*   src/mcp_servers/aurora_pg_data_api/aurora_pg_data_api_server.py       *)
(* The tool handlers, format_records and the start-up configuration check  *)
(* are translated from the source.  The dispatch loop (McpServer.run of    *)
(* the fastmcp package) is not part of the repository; it is modelled from *)
(* sections 4.4 and 5 of the specification.                                *)
(***************************************************************************)
EXTENDS Integers, Sequences, FiniteSets, TLC

VARIABLES
    server,        \* which program runs: "s3" or "sql"
    env,           \* the process environment read at import
    CLUSTER_ARN,   \* module globals of the sql server
    SECRET_ARN,
    DEFAULT_DATABASE_NAME,
    proc,          \* "init", "serving", "stopped", "exited"
    exitStatus,    \* process exit status, -1 while running
    eof,           \* the transport has reported end-of-stream
    req,           \* id -> the decoded Request, or NoReq
    pc,            \* id -> "none", "received", "calling", "finished", "completed"
    running,       \* the id of the handler that holds the event loop, or 0
    reply,         \* id -> what the adapter call returned or raised, or NoReply
    outcome,       \* id -> what left the handler, or NoOutcome
    calls,         \* the adapter operations invoked, in order
    responses      \* the Responses written to the transport, in order

vars == <<server, env, CLUSTER_ARN, SECRET_ARN, DEFAULT_DATABASE_NAME, proc,
          exitStatus, eof, req, pc, running, reply, outcome, calls, responses>>

(***************************************************************************)
(* Bounds                                                                  *)
(***************************************************************************)
MaxRequests == 2
MaxRows == 2
MaxFields == 2

Ids == 1..MaxRequests

(***************************************************************************)
(* Python values                                                           *)
(***************************************************************************)
None == [ty |-> "none"]
StrV(x) == [ty |-> "str", s |-> x]
IntV(k) == [ty |-> "int", n |-> k]
BoolV(b) == [ty |-> "bool", b |-> b]
BytesV(q) == [ty |-> "bytes", q |-> q]
ListV(q) == [ty |-> "list", q |-> q]

\* bool(v): Python truthiness, as used by `not x` and `if x`
Truthy(v) ==
    CASE v.ty = "none" -> FALSE
      [] v.ty = "str" -> v.s # ""
      [] v.ty = "int" -> v.n # 0
      [] v.ty = "bool" -> v.b
      [] v.ty = "bytes" -> Len(v.q) > 0
      [] v.ty = "list" -> Len(v.q) > 0
      [] OTHER -> TRUE

\* dict.get(k) and dict.get(k, default)
Get(d, k) == IF k \in DOMAIN d THEN d[k] ELSE None
GetDefault(d, k, default) == IF k \in DOMAIN d THEN d[k] ELSE default

\* str(v), as an f-string renders it
PyStr(v) ==
    CASE v.ty = "none" -> "None"
      [] v.ty = "str" -> v.s
      [] v.ty = "int" -> ToString(v.n)
      [] v.ty = "bool" -> IF v.b THEN "True" ELSE "False"
      [] OTHER -> "<object>"

\* os.environ.get(name): the value, or NoEnv when the variable is unset
NoEnv == "<unset>"
EnvTruthy(v) == v # NoEnv /\ v # ""

(***************************************************************************)
(* Handler outcomes (fastmcp McpError / ErrorCode)                         *)
(***************************************************************************)
ErrorCode == {"InvalidParams", "InvalidRequest", "Timeout", "PermissionDenied",
              "NotFound", "Unavailable", "InternalError"}

Return(result) == [kind |-> "success", result |-> result]
McpError(code, message) == [kind |-> "mcp_error", errorKind |-> code, message |-> message]
Escapes(exc) == [kind |-> "raw_exception", exc |-> exc]

\* adapter behaviour: a response, a botocore ClientError, or any other exception
Ok(body) == [kind |-> "ok", body |-> body]
ClientError(code, message) == [kind |-> "ClientError", code |-> code, message |-> message]
OtherException(exc) == [kind |-> "exception", exc |-> exc]
NoCode == "<no code>"

NoCall == [op |-> "none"]
Call(op, params) == [op |-> op, params |-> params]

(***************************************************************************)
(* s3_server.py: the five tool handlers.  Each is a function of the args   *)
(* mapping and of what the boto3 call does; XxxCall is the boto3 call the  *)
(* handler makes, NoCall when it leaves before calling.                    *)
(***************************************************************************)
DefaultMaxKeys == 1000

S3ApiError(rep) == McpError("InternalError", <<"AWS S3 API Error: ", rep.message>>)

BucketNames(buckets) == [i \in 1..Len(buckets) |-> buckets[i].Name]

list_buckets_call(args) == Call("list_buckets", << >>)

list_buckets_handler(args, rep) ==
    CASE rep.kind = "ok" ->
           Return([buckets |-> BucketNames(GetDefault(rep.body, "Buckets", << >>))])
      [] rep.kind = "ClientError" -> S3ApiError(rep)
      [] OTHER -> Escapes(rep.exc)

\* datetime.isoformat()
isoformat(dt) == dt.date \o "T" \o dt.time

ObjectsOfPage(page) ==
    LET contents == GetDefault(page, "Contents", << >>)
    IN  [i \in 1..Len(contents) |->
            [key |-> contents[i].Key,
             size |-> contents[i].Size,
             last_modified |-> isoformat(contents[i].LastModified)]]

RECURSIVE ObjectsOfPages(_)
ObjectsOfPages(pages) ==
    IF pages = << >> THEN << >>
    ELSE ObjectsOfPage(Head(pages)) \o ObjectsOfPages(Tail(pages))

list_objects_missing(args) == ~Truthy(Get(args, "bucket_name"))

\* Mutant: max_keys is read without its default.
list_objects_call_NoLimit(args) ==
    IF list_objects_missing(args) THEN NoCall
    ELSE Call("list_objects_v2",
              [Bucket |-> Get(args, "bucket_name"),
               Prefix |-> GetDefault(args, "prefix", StrV("")),
               MaxItems |-> Get(args, "max_keys")])

list_objects_call(args) ==
    IF list_objects_missing(args) THEN NoCall
    ELSE Call("list_objects_v2",
              [Bucket |-> Get(args, "bucket_name"),
               Prefix |-> GetDefault(args, "prefix", StrV("")),
               MaxItems |-> GetDefault(args, "max_keys", IntV(DefaultMaxKeys))])

list_objects_handler(args, rep) ==
    IF list_objects_missing(args)
    THEN McpError("InvalidParams", <<"Missing required parameter: bucket_name">>)
    ELSE CASE rep.kind = "ok" -> Return([objects |-> ObjectsOfPages(rep.body)])
           [] rep.kind = "ClientError" -> S3ApiError(rep)
           [] OTHER -> Escapes(rep.exc)

get_object_missing(args) ==
    ~Truthy(Get(args, "bucket_name")) \/ ~Truthy(Get(args, "key"))

get_object_call(args) ==
    IF get_object_missing(args) THEN NoCall
    ELSE Call("get_object", [Bucket |-> Get(args, "bucket_name"), Key |-> Get(args, "key")])

ObjectNotFound(args) ==
    McpError("NotFound", <<"Object not found: s3://", PyStr(Get(args, "bucket_name")),
                           "/", PyStr(Get(args, "key"))>>)

get_object_handler(args, rep) ==
    IF get_object_missing(args)
    THEN McpError("InvalidParams", <<"Missing required parameters: bucket_name, key">>)
    ELSE CASE rep.kind = "ok" ->
                IF rep.body.Body.utf8
                THEN Return([content |-> rep.body.Body.text,
                             content_type |-> GetDefault(rep.body, "ContentType", "unknown")])
                ELSE McpError("InternalError",
                        <<"Failed to decode object content as UTF-8. Object might be binary.">>)
           [] rep.kind = "ClientError" ->
                IF rep.code = "NoSuchKey" THEN ObjectNotFound(args) ELSE S3ApiError(rep)
           [] OTHER -> Escapes(rep.exc)

\* Mutant: the key is not checked.
put_object_missing_NoKey(args) ==
    \/ ~Truthy(Get(args, "bucket_name"))
    \/ Get(args, "content") = None

put_object_missing(args) ==
    \/ ~Truthy(Get(args, "bucket_name"))
    \/ ~Truthy(Get(args, "key"))
    \/ Get(args, "content") = None

\* content.encode('utf-8'): only a str has the method
HasEncode(v) == v.ty = "str"
encode(v) == BytesV(v.s)

put_object_call(args) ==
    IF put_object_missing(args) \/ ~HasEncode(Get(args, "content")) THEN NoCall
    ELSE Call("put_object",
              [Bucket |-> Get(args, "bucket_name"),
               Key |-> Get(args, "key"),
               Body |-> encode(Get(args, "content")),
               ContentType |-> GetDefault(args, "content_type", StrV("text/plain"))])

put_object_handler(args, rep) ==
    IF put_object_missing(args)
    THEN McpError("InvalidParams", <<"Missing required parameters: bucket_name, key, content">>)
    ELSE IF ~HasEncode(Get(args, "content")) THEN Escapes("AttributeError")
    ELSE CASE rep.kind = "ok" ->
                Return([status |-> "success", version_id |-> Get(rep.body, "VersionId")])
           [] rep.kind = "ClientError" -> S3ApiError(rep)
           [] OTHER -> Escapes(rep.exc)

delete_object_missing(args) ==
    ~Truthy(Get(args, "bucket_name")) \/ ~Truthy(Get(args, "key"))

delete_object_call(args) ==
    IF delete_object_missing(args) THEN NoCall
    ELSE Call("delete_object", [Bucket |-> Get(args, "bucket_name"), Key |-> Get(args, "key")])

delete_object_handler(args, rep) ==
    IF delete_object_missing(args)
    THEN McpError("InvalidParams", <<"Missing required parameters: bucket_name, key">>)
    ELSE CASE rep.kind = "ok" ->
                Return([status |-> "success",
                        delete_marker |-> Get(rep.body, "DeleteMarker"),
                        version_id |-> Get(rep.body, "VersionId")])
           [] rep.kind = "ClientError" -> S3ApiError(rep)
           [] OTHER -> Escapes(rep.exc)

(***************************************************************************)
(* aurora_pg_data_api_server.py: format_records.  A field is a dict in     *)
(* insertion order: a sequence of <<tag, value>> pairs with distinct tags. *)
(* A row under construction is a dict: a function from labels to values.   *)
(***************************************************************************)
HasTag(field, tag) == \E i \in 1..Len(field) : field[i][1] = tag
TagValue(field, tag) == field[CHOOSE i \in 1..Len(field) : field[i][1] = tag][2]

DictSet(d, k, v) == [x \in (DOMAIN d) \cup {k} |-> IF x = k THEN v ELSE d[x]]

Raised(exc) == [raised |-> TRUE, exc |-> exc]
Value(v) == [raised |-> FALSE, value |-> v]

\* Mutant: the value tags are tested by the truth of their value, not by
\* their presence.
FormatField_Truthy(field) ==
    IF HasTag(field, "stringValue") /\ Truthy(TagValue(field, "stringValue"))
    THEN Value(TagValue(field, "stringValue"))
    ELSE IF HasTag(field, "longValue") /\ Truthy(TagValue(field, "longValue"))
    THEN Value(TagValue(field, "longValue"))
    ELSE IF HasTag(field, "doubleValue") /\ Truthy(TagValue(field, "doubleValue"))
    THEN Value(TagValue(field, "doubleValue"))
    ELSE IF HasTag(field, "booleanValue") /\ Truthy(TagValue(field, "booleanValue"))
    THEN Value(TagValue(field, "booleanValue"))
    ELSE IF HasTag(field, "blobValue")
         THEN Value(StrV("BLOB (length: "
                         \o ToString(Len(TagValue(field, "blobValue").q)) \o ")"))
    ELSE IF HasTag(field, "isNull") /\ Truthy(TagValue(field, "isNull")) THEN Value(None)
    ELSE IF field = << >> THEN Raised("IndexError")
    ELSE Value(StrV("Unsupported type: " \o field[1][1]))

\* Mutant: isNull is tested first.
FormatField_NullFirst(field) ==
    IF HasTag(field, "isNull") /\ Truthy(TagValue(field, "isNull")) THEN Value(None)
    ELSE IF HasTag(field, "stringValue") THEN Value(TagValue(field, "stringValue"))
    ELSE IF HasTag(field, "longValue") THEN Value(TagValue(field, "longValue"))
    ELSE IF HasTag(field, "doubleValue") THEN Value(TagValue(field, "doubleValue"))
    ELSE IF HasTag(field, "booleanValue") THEN Value(TagValue(field, "booleanValue"))
    ELSE IF HasTag(field, "blobValue")
         THEN Value(StrV("BLOB (length: "
                         \o ToString(Len(TagValue(field, "blobValue").q)) \o ")"))
    ELSE IF field = << >> THEN Raised("IndexError")
    ELSE Value(StrV("Unsupported type: " \o field[1][1]))

\* lines 45-59: the if/elif chain over the tags of one field
FormatField(field) ==
    IF HasTag(field, "stringValue") THEN Value(TagValue(field, "stringValue"))
    ELSE IF HasTag(field, "longValue") THEN Value(TagValue(field, "longValue"))
    ELSE IF HasTag(field, "doubleValue") THEN Value(TagValue(field, "doubleValue"))
    ELSE IF HasTag(field, "booleanValue") THEN Value(TagValue(field, "booleanValue"))
    ELSE IF HasTag(field, "blobValue")
         THEN Value(StrV("BLOB (length: "
                         \o ToString(Len(TagValue(field, "blobValue").q)) \o ")"))
    ELSE IF HasTag(field, "isNull") /\ Truthy(TagValue(field, "isNull")) THEN Value(None)
    ELSE IF field = << >> THEN Raised("IndexError")    \* list(field.keys())[0]
    ELSE Value(StrV("Unsupported type: " \o field[1][1]))

\* lines 41-59: the inner loop, from field i on
RECURSIVE FormatRow(_, _, _, _)
FormatRow(record, column_names, i, row) ==
    IF i > Len(record) THEN Value(row)
    ELSE IF i > Len(column_names) THEN Raised("IndexError")    \* column_names[i]
    ELSE LET f == FormatField(record[i])
         IN  IF f.raised THEN f
             ELSE FormatRow(record, column_names, i + 1, DictSet(row, column_names[i], f.value))

\* lines 40-60: the outer loop, from record j on
RECURSIVE FormatRows(_, _, _, _)
FormatRows(records, column_names, j, formatted_results) ==
    IF j > Len(records) THEN Value(formatted_results)
    ELSE LET r == FormatRow(records[j], column_names, 1, << >>)
         IN  IF r.raised THEN r
             ELSE FormatRows(records, column_names, j + 1, Append(formatted_results, r.value))

format_records(records, column_metadata) ==
    LET column_names == [i \in 1..Len(column_metadata) |-> column_metadata[i].label]
    IN  FormatRows(records, column_names, 1, << >>)

(***************************************************************************)
(* aurora_pg_data_api_server.py: execute_sql_handler                       *)
(***************************************************************************)
execute_sql_missing(args) == ~Truthy(Get(args, "sql_statement"))

\* sql[:100] in the log line, inside the try block
Sliceable(v) == v.ty \in {"str", "bytes", "list"}

execute_sql_call(args) ==
    IF execute_sql_missing(args) \/ ~Sliceable(Get(args, "sql_statement")) THEN NoCall
    ELSE LET params_to_pass ==
                 [resourceArn |-> CLUSTER_ARN,
                  secretArn |-> SECRET_ARN,
                  database |-> GetDefault(args, "database_name", StrV(DEFAULT_DATABASE_NAME)),
                  sql |-> Get(args, "sql_statement"),
                  includeResultMetadata |-> GetDefault(args, "include_result_metadata", BoolV(FALSE)),
                  continueAfterTimeout |-> GetDefault(args, "continue_after_timeout", BoolV(FALSE))]
         IN  Call("execute_statement",
                  IF Truthy(Get(args, "parameters"))
                  THEN [parameters |-> Get(args, "parameters")] @@ params_to_pass
                  ELSE params_to_pass)

\* Mutant: the timeout branch is missing.
SqlErrorKind_NoTimeout(error_code) ==
    IF error_code = "BadRequestException" THEN "InvalidRequest"
    ELSE IF error_code = "ForbiddenException" THEN "PermissionDenied"
    ELSE IF error_code = "NotFoundException" THEN "NotFound"
    ELSE IF error_code = "ServiceUnavailableError" THEN "Unavailable"
    ELSE "InternalError"

\* lines 110-122: the provider code to ErrorCode chain
SqlErrorKind(error_code) ==
    IF error_code = "BadRequestException" THEN "InvalidRequest"
    ELSE IF error_code = "StatementTimeoutException" THEN "Timeout"
    ELSE IF error_code = "ForbiddenException" THEN "PermissionDenied"
    ELSE IF error_code = "NotFoundException" THEN "NotFound"
    ELSE IF error_code = "ServiceUnavailableError" THEN "Unavailable"
    ELSE "InternalError"

SqlErrorPrefix(error_code) ==
    IF error_code = "BadRequestException" THEN "RDS Data API Bad Request: "
    ELSE IF error_code = "StatementTimeoutException" THEN "RDS Data API Statement Timeout: "
    ELSE IF error_code = "ForbiddenException" THEN "RDS Data API Forbidden: "
    ELSE IF error_code = "NotFoundException" THEN "RDS Data API Not Found (e.g., DB): "
    ELSE IF error_code = "ServiceUnavailableError" THEN "RDS Data API Service Unavailable: "
    ELSE "RDS Data API Error: "

UnexpectedServerError(exc) == McpError("InternalError", <<"Unexpected server error: ", exc>>)

\* Mutant: the rows affected are read under the wrong key.
SqlResult_WrongKey(args, response) ==
    LET include_result_metadata == GetDefault(args, "include_result_metadata", BoolV(FALSE))
        result == [status |-> "success",
                   records_updated |-> GetDefault(response, "recordsUpdated", IntV(0)),
                   generated_fields |-> GetDefault(response, "generatedFields", << >>)]
    IN  IF "records" \in DOMAIN response
        THEN IF Truthy(include_result_metadata) /\ "columnMetadata" \in DOMAIN response
             THEN LET f == format_records(response.records, response.columnMetadata)
                  IN  IF f.raised THEN UnexpectedServerError(f.exc)
                      ELSE Return([column_metadata |-> response.columnMetadata,
                                   records |-> f.value] @@ result)
             ELSE Return([records |-> response.records] @@ result)
        ELSE Return(result)

\* lines 90-103: the result built from the adapter's response
SqlResult(args, response) ==
    LET include_result_metadata == GetDefault(args, "include_result_metadata", BoolV(FALSE))
        result == [status |-> "success",
                   records_updated |-> GetDefault(response, "numberOfRecordsUpdated", IntV(0)),
                   generated_fields |-> GetDefault(response, "generatedFields", << >>)]
    IN  IF "records" \in DOMAIN response
        THEN IF Truthy(include_result_metadata) /\ "columnMetadata" \in DOMAIN response
             THEN LET f == format_records(response.records, response.columnMetadata)
                  IN  IF f.raised THEN UnexpectedServerError(f.exc)
                      ELSE Return([column_metadata |-> response.columnMetadata,
                                   records |-> f.value] @@ result)
             ELSE Return([records |-> response.records] @@ result)
        ELSE Return(result)

execute_sql_handler(args, rep) ==
    IF execute_sql_missing(args)
    THEN McpError("InvalidParams", <<"Missing required parameter: sql_statement">>)
    ELSE IF ~Sliceable(Get(args, "sql_statement")) THEN UnexpectedServerError("TypeError")
    ELSE CASE rep.kind = "ok" -> SqlResult(args, rep.body)
           [] rep.kind = "ClientError" ->
                McpError(SqlErrorKind(rep.code), <<SqlErrorPrefix(rep.code), rep.message>>)
           [] OTHER -> UnexpectedServerError(rep.exc)

(***************************************************************************)
(* The tool registries (_get_tools of the two servers)                     *)
(***************************************************************************)
S3Tools == {"list_buckets", "list_objects", "get_object", "put_object", "delete_object"}
SqlTools == {"execute_sql"}
ToolsOf(srv) == IF srv = "s3" THEN S3Tools ELSE SqlTools

Required(tool) ==
    CASE tool = "list_buckets" -> {}
      [] tool = "list_objects" -> {"bucket_name"}
      [] tool = "get_object" -> {"bucket_name", "key"}
      [] tool = "put_object" -> {"bucket_name", "key", "content"}
      [] tool = "delete_object" -> {"bucket_name", "key"}
      [] tool = "execute_sql" -> {"sql_statement"}

\* ToolInputSchema.properties: the declared type of every field
Properties(tool) ==
    CASE tool = "list_buckets" -> << >>
      [] tool = "list_objects" ->
           [bucket_name |-> "string", prefix |-> "string", max_keys |-> "integer"]
      [] tool = "get_object" -> [bucket_name |-> "string", key |-> "string"]
      [] tool = "put_object" ->
           [bucket_name |-> "string", key |-> "string", content |-> "string",
            content_type |-> "string"]
      [] tool = "delete_object" -> [bucket_name |-> "string", key |-> "string"]
      [] tool = "execute_sql" ->
           [sql_statement |-> "string", database_name |-> "string",
            include_result_metadata |-> "boolean", continue_after_timeout |-> "boolean",
            parameters |-> "array"]

\* Tool.handler: the call the handler makes, and what leaves the handler
HandlerCall(tool, args) ==
    CASE tool = "list_buckets" -> list_buckets_call(args)
      [] tool = "list_objects" -> list_objects_call(args)
      [] tool = "get_object" -> get_object_call(args)
      [] tool = "put_object" -> put_object_call(args)
      [] tool = "delete_object" -> delete_object_call(args)
      [] tool = "execute_sql" -> execute_sql_call(args)

Handler(tool, args, rep) ==
    CASE tool = "list_buckets" -> list_buckets_handler(args, rep)
      [] tool = "list_objects" -> list_objects_handler(args, rep)
      [] tool = "get_object" -> get_object_handler(args, rep)
      [] tool = "put_object" -> put_object_handler(args, rep)
      [] tool = "delete_object" -> delete_object_handler(args, rep)
      [] tool = "execute_sql" -> execute_sql_handler(args, rep)

(***************************************************************************)
(* Inputs: the args mappings a caller may send and the behaviours of the   *)
(* boto3 clients.  ArgMaps(V) is every mapping that gives some of the      *)
(* fields of V one of the values V allows it; a field left out is absent.  *)
(***************************************************************************)
RECURSIVE ArgMapsOver(_, _)
ArgMapsOver(V, F) ==
    IF F = {} THEN {<< >>}
    ELSE LET f == CHOOSE x \in F : TRUE
             rest == ArgMapsOver(V, F \ {f})
         IN  rest \cup {DictSet(a, f, v) : a \in rest, v \in V[f]}

ArgMaps(V) == ArgMapsOver(V, DOMAIN V)

NameValues == {None, StrV(""), StrV("b")}
KeyValues == {None, StrV(""), StrV("k")}

ListObjectsArgs ==
    ArgMaps([bucket_name |-> NameValues \cup {IntV(0)},
             prefix |-> {StrV("p")}, max_keys |-> {IntV(5)}])
GetObjectArgs ==
    ArgMaps([bucket_name |-> NameValues, key |-> KeyValues \cup {IntV(7)}])
PutObjectArgs ==
    ArgMaps([bucket_name |-> NameValues, key |-> KeyValues,
             content |-> {None, StrV(""), StrV("hi"), IntV(5)},
             content_type |-> {StrV("text/html")}])
DeleteObjectArgs ==
    ArgMaps([bucket_name |-> NameValues, key |-> KeyValues])
ExecuteSqlArgs ==
    ArgMaps([sql_statement |-> {None, StrV(""), StrV("SELECT 1"), IntV(5)},
             database_name |-> {StrV("mydb")},
             include_result_metadata |-> {BoolV(TRUE), BoolV(FALSE)},
             continue_after_timeout |-> {BoolV(TRUE)},
             parameters |-> {ListV(<< >>),
                             ListV(<<[name |-> "id", value |-> <<<<"longValue", IntV(1)>>>>]>>)}])

WideArgs(tool) ==
    CASE tool = "list_buckets" -> {<< >>}
      [] tool = "list_objects" -> ListObjectsArgs
      [] tool = "get_object" -> GetObjectArgs
      [] tool = "put_object" -> PutObjectArgs
      [] tool = "delete_object" -> DeleteObjectArgs
      [] tool = "execute_sql" -> ExecuteSqlArgs

NarrowArgs(tool) ==
    CASE tool = "list_buckets" -> {<< >>}
      [] tool = "list_objects" -> {[bucket_name |-> StrV("b")]}
      [] tool = "get_object" -> {[bucket_name |-> StrV("b"), key |-> StrV("k")],
                                 [bucket_name |-> StrV("b"), key |-> StrV("k2")],
                                 [bucket_name |-> StrV("b")]}
      [] tool = "put_object" -> {[bucket_name |-> StrV("b"), key |-> StrV("k"), content |-> StrV("hi")]}
      [] tool = "delete_object" -> {[bucket_name |-> StrV("b"), key |-> StrV("k")]}
      [] tool = "execute_sql" -> {[sql_statement |-> StrV("SELECT 1")],
                                  [sql_statement |-> StrV("SELECT 2"), database_name |-> StrV("mydb")],
                                  << >>}

S3Failures(codes) ==
    {ClientError(c, "msg") : c \in codes} \cup {OtherException("EndpointConnectionError")}

SqlCodes == {"BadRequestException", "StatementTimeoutException", "ForbiddenException",
             "NotFoundException", "ServiceUnavailableError", "InternalServerErrorException",
             NoCode}

SqlFailures ==
    {ClientError(c, "msg") : c \in SqlCodes} \cup {OtherException("EndpointConnectionError")}

AnObject == [Key |-> "a.txt", Size |-> 10,
             LastModified |-> [date |-> "2024-01-01", time |-> "00:00:00"]]

OneColumn == <<[label |-> "a"]>>
OneRow == <<<<<<<<"longValue", IntV(1)>>>>>>>>

WideReplies(tool) ==
    CASE tool = "list_buckets" ->
           S3Failures({"AccessDenied"}) \cup {Ok(<< >>), Ok([Buckets |-> <<[Name |-> "b"]>>])}
      [] tool = "list_objects" ->
           S3Failures({"NoSuchBucket", "AccessDenied"}) \cup {Ok(<< >>), Ok(<<<< >>>>), Ok(<<[Contents |-> <<AnObject>>]>>),
                            Ok(<<[Contents |-> <<AnObject>>], [Contents |-> <<AnObject>>]>>)}
      [] tool = "get_object" ->
           S3Failures({"NoSuchKey", "NoSuchBucket", "AccessDenied"}) \cup {Ok([Body |-> [utf8 |-> TRUE, text |-> "hello"], ContentType |-> "text/plain"]),
                            Ok([Body |-> [utf8 |-> TRUE, text |-> "hello"]]),
                            Ok([Body |-> [utf8 |-> FALSE]])}
      [] tool = "put_object" ->
           S3Failures({"NoSuchBucket", "AccessDenied"}) \cup {Ok(<< >>), Ok([VersionId |-> StrV("v1")])}
      [] tool = "delete_object" ->
           S3Failures({"NoSuchBucket", "AccessDenied"}) \cup {Ok(<< >>), Ok([DeleteMarker |-> BoolV(TRUE), VersionId |-> StrV("v1")])}
      [] tool = "execute_sql" ->
           SqlFailures \cup {Ok(<< >>), Ok([numberOfRecordsUpdated |-> IntV(3)]),
                             Ok([records |-> OneRow]),
                             Ok([records |-> OneRow, columnMetadata |-> OneColumn])}

NarrowReplies(tool) ==
    CASE tool = "list_buckets" ->
           {Ok([Buckets |-> <<[Name |-> "b"]>>]), ClientError("AccessDenied", "msg")}
      [] tool = "list_objects" ->
           {Ok(<<[Contents |-> <<AnObject>>]>>), ClientError("NoSuchBucket", "msg")}
      [] tool = "get_object" ->
           {Ok([Body |-> [utf8 |-> TRUE, text |-> "hello"]]), ClientError("NoSuchKey", "msg"),
            OtherException("EndpointConnectionError")}
      [] tool = "put_object" -> {Ok([VersionId |-> StrV("v1")]), ClientError("AccessDenied", "msg")}
      [] tool = "delete_object" -> {Ok(<< >>), ClientError("AccessDenied", "msg")}
      [] tool = "execute_sql" ->
           {Ok([numberOfRecordsUpdated |-> IntV(3)]),
            ClientError("StatementTimeoutException", "msg"),
            OtherException("EndpointConnectionError")}

(***************************************************************************)
(* The process                                                             *)
(***************************************************************************)
NoReq == [tool |-> "none"]
NoReply == [kind |-> "none"]
NoOutcome == [kind |-> "none"]

Environments(srv) ==
    IF srv = "sql"
    THEN [DB_CLUSTER_ARN : {NoEnv, "", "arn:cluster"},
          DB_SECRET_ARN : {NoEnv, "", "arn:secret"},
          DEFAULT_DB_NAME : {NoEnv, "appdb"}]
    ELSE [DB_CLUSTER_ARN : {NoEnv}, DB_SECRET_ARN : {NoEnv}, DEFAULT_DB_NAME : {NoEnv}]

Init ==
    /\ server \in {"s3", "sql"}
    /\ env \in Environments(server)
    /\ CLUSTER_ARN = NoEnv
    /\ SECRET_ARN = NoEnv
    /\ DEFAULT_DATABASE_NAME = NoEnv
    /\ proc = "init"
    /\ exitStatus = -1
    /\ eof = FALSE
    /\ req = [r \in Ids |-> NoReq]
    /\ pc = [r \in Ids |-> "none"]
    /\ running = 0
    /\ reply = [r \in Ids |-> NoReply]
    /\ outcome = [r \in Ids |-> NoOutcome]
    /\ calls = << >>
    /\ responses = << >>

\* Mutant: `and` for `or`.
module_config_missing_And(cluster, secret) == ~EnvTruthy(cluster) /\ ~EnvTruthy(secret)

\* aurora line 29: if not CLUSTER_ARN or not SECRET_ARN: sys.exit(1)
module_config_missing(cluster, secret) == ~EnvTruthy(cluster) \/ ~EnvTruthy(secret)
\* aurora line 182: if not CLUSTER_ARN or not SECRET_ARN: return
run_config_missing(cluster, secret) == ~EnvTruthy(cluster) \/ ~EnvTruthy(secret)

\* Import of the module, main() and run() up to the call of self.server.run()
Startup ==
    /\ proc = "init"
    /\ IF server = "sql"
       THEN /\ CLUSTER_ARN' = env.DB_CLUSTER_ARN
            /\ SECRET_ARN' = env.DB_SECRET_ARN
            /\ DEFAULT_DATABASE_NAME' =
                   (IF env.DEFAULT_DB_NAME = NoEnv THEN "postgres" ELSE env.DEFAULT_DB_NAME)
            /\ IF module_config_missing(env.DB_CLUSTER_ARN, env.DB_SECRET_ARN)
               THEN proc' = "exited" /\ exitStatus' = 1
               ELSE IF run_config_missing(env.DB_CLUSTER_ARN, env.DB_SECRET_ARN)
               THEN proc' = "exited" /\ exitStatus' = 0
               ELSE proc' = "serving" /\ exitStatus' = exitStatus
       ELSE /\ proc' = "serving"
            /\ UNCHANGED <<CLUSTER_ARN, SECRET_ARN, DEFAULT_DATABASE_NAME, exitStatus>>
    /\ UNCHANGED <<server, env, eof, req, pc, running, reply, outcome, calls, responses>>

\* The handlers call boto3 without await (s3 lines 31, 50, 72, 99, 119; aurora
\* line 88): the coroutine keeps the event loop until the call has returned.
adapter_call_awaited == FALSE

\* The transport yields the next decoded Request; ids are taken in arrival order.
Receive(r, tool, args) ==
    /\ proc = "serving" /\ ~eof /\ running = 0
    /\ pc[r] = "none"
    /\ \A q \in Ids : q < r => pc[q] # "none"
    /\ req' = [req EXCEPT ![r] = [tool |-> tool, args |-> args]]
    /\ pc' = [pc EXCEPT ![r] = "received"]
    /\ UNCHANGED <<server, env, CLUSTER_ARN, SECRET_ARN, DEFAULT_DATABASE_NAME, proc,
                   exitStatus, eof, running, reply, outcome, calls, responses>>

\* The handler runs from its first line to its boto3 call, or to its end when
\* it leaves before calling.
StartHandler(r) ==
    /\ proc = "serving" /\ running = 0
    /\ pc[r] = "received"
    /\ LET c == HandlerCall(req[r].tool, req[r].args)
       IN  IF c = NoCall
           THEN /\ outcome' = [outcome EXCEPT ![r] = Handler(req[r].tool, req[r].args, NoReply)]
                /\ pc' = [pc EXCEPT ![r] = "finished"]
                /\ UNCHANGED <<calls, running>>
           ELSE /\ calls' = Append(calls, [id |-> r, op |-> c.op, params |-> c.params])
                /\ pc' = [pc EXCEPT ![r] = "calling"]
                /\ running' = (IF adapter_call_awaited THEN 0 ELSE r)
                /\ UNCHANGED outcome
    /\ UNCHANGED <<server, env, CLUSTER_ARN, SECRET_ARN, DEFAULT_DATABASE_NAME, proc,
                   exitStatus, eof, req, reply, responses>>

\* Mutant: a call that failed is made once more before the handler gives up.
AdapterReturn_Retry(r, rep) ==
    /\ proc = "serving"
    /\ pc[r] = "calling"
    /\ running \in {0, r}
    /\ IF rep.kind # "ok" /\ Cardinality({i \in 1..Len(calls) : calls[i].id = r}) = 1
       THEN /\ calls' = Append(calls, calls[CHOOSE i \in 1..Len(calls) : calls[i].id = r])
            /\ UNCHANGED <<reply, outcome, pc, running>>
       ELSE /\ reply' = [reply EXCEPT ![r] = rep]
            /\ outcome' = [outcome EXCEPT ![r] = Handler(req[r].tool, req[r].args, rep)]
            /\ pc' = [pc EXCEPT ![r] = "finished"]
            /\ running' = 0
            /\ UNCHANGED calls
    /\ UNCHANGED <<server, env, CLUSTER_ARN, SECRET_ARN, DEFAULT_DATABASE_NAME, proc,
                   exitStatus, eof, req, responses>>

\* Mutant: the handler reads its args from state shared by all requests, which
\* holds the args of the request received last.
AdapterReturn_SharedArgs(r, rep) ==
    /\ proc = "serving"
    /\ pc[r] = "calling"
    /\ running \in {0, r}
    /\ reply' = [reply EXCEPT ![r] = rep]
    /\ LET last == CHOOSE q \in Ids : pc[q] # "none" /\ \A p \in Ids : pc[p] # "none" => p <= q
       IN  outcome' = [outcome EXCEPT ![r] = Handler(req[r].tool, req[last].args, rep)]
    /\ pc' = [pc EXCEPT ![r] = "finished"]
    /\ running' = 0
    /\ UNCHANGED <<server, env, CLUSTER_ARN, SECRET_ARN, DEFAULT_DATABASE_NAME, proc,
                   exitStatus, eof, req, calls, responses>>

\* The boto3 call returns or raises, and the handler runs to its end.
AdapterReturn(r, rep) ==
    /\ proc = "serving"
    /\ pc[r] = "calling"
    /\ running \in {0, r}
    /\ reply' = [reply EXCEPT ![r] = rep]
    /\ outcome' = [outcome EXCEPT ![r] = Handler(req[r].tool, req[r].args, rep)]
    /\ pc' = [pc EXCEPT ![r] = "finished"]
    /\ running' = 0
    /\ UNCHANGED <<server, env, CLUSTER_ARN, SECRET_ARN, DEFAULT_DATABASE_NAME, proc,
                   exitStatus, eof, req, calls, responses>>

\* The Response the Dispatcher writes for what left the handler
Response(r, o) ==
    CASE o.kind = "success" -> [id |-> r, result |-> o.result]
      [] o.kind = "mcp_error" -> [id |-> r, error |-> [kind |-> o.errorKind, message |-> o.message]]
      [] OTHER -> [id |-> r, error |-> [kind |-> "InternalError", message |-> <<"Internal error">>]]

\* Mutant: the Response is written once when the handler ends and once more
\* by the error callback.
Emit_Twice(r) ==
    /\ proc = "serving" /\ running = 0
    /\ pc[r] = "finished"
    /\ responses' = IF outcome[r].kind = "success"
                    THEN Append(responses, Response(r, outcome[r]))
                    ELSE Append(Append(responses, Response(r, outcome[r])), Response(r, outcome[r]))
    /\ pc' = [pc EXCEPT ![r] = "completed"]
    /\ UNCHANGED <<server, env, CLUSTER_ARN, SECRET_ARN, DEFAULT_DATABASE_NAME, proc,
                   exitStatus, eof, req, running, reply, outcome, calls>>

Emit(r) ==
    /\ proc = "serving" /\ running = 0
    /\ pc[r] = "finished"
    /\ responses' = Append(responses, Response(r, outcome[r]))
    /\ pc' = [pc EXCEPT ![r] = "completed"]
    /\ UNCHANGED <<server, env, CLUSTER_ARN, SECRET_ARN, DEFAULT_DATABASE_NAME, proc,
                   exitStatus, eof, req, running, reply, outcome, calls>>

EndOfStream ==
    /\ proc = "serving" /\ ~eof /\ running = 0
    /\ eof' = TRUE
    /\ UNCHANGED <<server, env, CLUSTER_ARN, SECRET_ARN, DEFAULT_DATABASE_NAME, proc,
                   exitStatus, req, pc, running, reply, outcome, calls, responses>>

\* Mutant: server.run() returns as soon as the stream has ended.
Shutdown_NoDrain ==
    /\ proc = "serving" /\ eof /\ running = 0
    /\ proc' = "stopped"
    /\ exitStatus' = 0
    /\ UNCHANGED <<server, env, CLUSTER_ARN, SECRET_ARN, DEFAULT_DATABASE_NAME,
                   eof, req, pc, running, reply, outcome, calls, responses>>

\* server.run() returns once the stream has ended and the in-flight requests
\* are answered; run() and main() return and the process ends.
Shutdown ==
    /\ proc = "serving" /\ eof /\ running = 0
    /\ \A r \in Ids : pc[r] \in {"none", "completed"}
    /\ proc' = "stopped"
    /\ exitStatus' = 0
    /\ UNCHANGED <<server, env, CLUSTER_ARN, SECRET_ARN, DEFAULT_DATABASE_NAME,
                   eof, req, pc, running, reply, outcome, calls, responses>>

ReceiveRequest == \E r \in Ids : \E tool \in ToolsOf(server) : \E args \in NarrowArgs(tool) :
                      Receive(r, tool, args)
Dispatch == \E r \in Ids : StartHandler(r)
AdapterReturns == \E r \in Ids : pc[r] = "calling" /\ \E rep \in NarrowReplies(req[r].tool) :
                      AdapterReturn(r, rep)
EmitResponse == \E r \in Ids : Emit(r)

Next == Startup \/ ReceiveRequest \/ Dispatch \/ AdapterReturns \/ EmitResponse
            \/ EndOfStream \/ Shutdown

Spec == Init /\ [][Next]_vars

(***************************************************************************)
(* HandlerSpec: the same process serving one request, with the args and    *)
(* the adapter behaviours drawn from the wide sets.                        *)
(***************************************************************************)
ReceiveWide == \E tool \in ToolsOf(server) : \E args \in WideArgs(tool) : Receive(1, tool, args)
DispatchWide == StartHandler(1)
AdapterReturnsWide == pc[1] = "calling" /\ \E rep \in WideReplies(req[1].tool) : AdapterReturn(1, rep)
EmitWide == Emit(1)

HandlerNext == Startup \/ ReceiveWide \/ DispatchWide \/ AdapterReturnsWide \/ EmitWide
                   \/ EndOfStream \/ Shutdown

HandlerSpec == Init /\ [][HandlerNext]_vars

(***************************************************************************)
(* FmtSpec: the sql server serving one execute_sql request that asks for   *)
(* result metadata, the adapter returning every result set within the      *)
(* bounds (rows longer and shorter than the columns included).             *)
(***************************************************************************)
SeqsUpTo(S, n) == UNION {[1..k -> S] : k \in 0..n}

FieldShapes ==
    {<<<<"stringValue", StrV("x")>>>>,
     <<<<"longValue", IntV(0)>>>>,
     <<<<"doubleValue", [ty |-> "float", x |-> "1.5"]>>>>,
     <<<<"booleanValue", BoolV(FALSE)>>>>,
     <<<<"blobValue", BytesV("ab")>>>>,
     <<<<"isNull", BoolV(TRUE)>>>>,
     <<<<"isNull", BoolV(FALSE)>>>>,
     <<<<"arrayValue", ListV(<< >>)>>>>,
     << >>,
     <<<<"isNull", BoolV(TRUE)>>, <<"longValue", IntV(7)>>>>}

Labels == {"a", "b"}
RowShapes == SeqsUpTo(FieldShapes, MaxFields)
RecordSets == SeqsUpTo(RowShapes, MaxRows)
ColumnSets == SeqsUpTo([label : Labels], MaxFields)

FmtArgs == {[sql_statement |-> StrV("SELECT 1"), include_result_metadata |-> BoolV(TRUE)]}

FmtInit ==
    /\ Init
    /\ server = "sql"
    /\ env = [DB_CLUSTER_ARN |-> "arn:cluster", DB_SECRET_ARN |-> "arn:secret",
              DEFAULT_DB_NAME |-> NoEnv]

ReceiveSql == \E args \in FmtArgs : Receive(1, "execute_sql", args)
DispatchSql == StartHandler(1)
AdapterReturnsRecords ==
    pc[1] = "calling" /\ \E records \in RecordSets : \E columns \in ColumnSets :
        AdapterReturn(1, Ok([records |-> records, columnMetadata |-> columns]))
EmitSql == Emit(1)

FmtNext == Startup \/ ReceiveSql \/ DispatchSql \/ AdapterReturnsRecords \/ EmitSql
               \/ EndOfStream \/ Shutdown

FmtSpec == FmtInit /\ [][FmtNext]_vars

(***************************************************************************)
(* CodecSpec: one execute_sql request answered with one row of one field.  *)
(* The field carries any non-empty set of the tags, in the order below or  *)
(* in the reverse order (a dict keeps the order of insertion), with any of *)
(* the values of TagValues.                                                *)
(***************************************************************************)
TagOrder == <<"stringValue", "longValue", "doubleValue", "booleanValue", "blobValue",
              "isNull", "arrayValue">>
Float(x) == [ty |-> "float", x |-> x]

TagValues(tag) ==
    CASE tag = "stringValue" -> {StrV("x"), StrV("")}
      [] tag = "longValue" -> {IntV(7), IntV(0)}
      [] tag = "doubleValue" -> {Float("1.5"), Float("0.0")}
      [] tag = "booleanValue" -> {BoolV(TRUE), BoolV(FALSE)}
      [] tag = "blobValue" -> {BytesV("ab"), BytesV("cd"), BytesV("")}
      [] tag = "isNull" -> {BoolV(TRUE), BoolV(FALSE)}
      [] tag = "arrayValue" -> {ListV(<< >>)}

Reverse(q) == [i \in 1..Len(q) |-> q[Len(q) + 1 - i]]
InTagOrder(S) == SelectSeq(TagOrder, LAMBDA t : t \in S)
TagSets == (SUBSET {TagOrder[i] : i \in 1..Len(TagOrder)}) \ {{}}

\* the fields that carry one tag, with every value of the tag
SingleTagFields ==
    UNION {{<<<<TagOrder[i], v>>>> : v \in TagValues(TagOrder[i])} : i \in 1..Len(TagOrder)}

ZeroValues == {StrV(""), IntV(0), Float("0.0"), BoolV(FALSE), BytesV(""), ListV(<< >>)}

\* the fields that carry the tags of S: all with a zero value (isNull false),
\* all with a non-zero value where the tag has one (isNull true), or the zero
\* values with isNull true
FieldsOver(S) ==
    LET falsy == [t \in S |-> CHOOSE v \in TagValues(t) : v \in ZeroValues]
        truthy == [t \in S |-> IF TagValues(t) \subseteq ZeroValues THEN falsy[t]
                               ELSE CHOOSE v \in TagValues(t) : v \notin ZeroValues]
        nulled == [t \in S |-> IF t = "isNull" THEN BoolV(TRUE) ELSE falsy[t]]
    IN  {[i \in 1..Len(o) |-> <<o[i], vals[o[i]]>>] :
            o \in {InTagOrder(S), Reverse(InTagOrder(S))}, vals \in {truthy, falsy, nulled}}

CodecFields == SingleTagFields \cup UNION {FieldsOver(S) : S \in TagSets}

AdapterReturnsField ==
    pc[1] = "calling" /\ \E field \in CodecFields : \E l \in Labels :
        AdapterReturn(1, Ok([records |-> <<<<field>>>>, columnMetadata |-> <<[label |-> l]>>]))

CodecNext == Startup \/ ReceiveSql \/ DispatchSql \/ AdapterReturnsField \/ EmitSql
                 \/ EndOfStream \/ Shutdown

CodecSpec == FmtInit /\ [][CodecNext]_vars

(***************************************************************************)
(* FairSpec: the event loop runs every ready coroutine and every boto3     *)
(* call returns or raises.                                                 *)
(***************************************************************************)
FairSpec ==
    /\ Spec
    /\ WF_vars(Startup)
    /\ WF_vars(Dispatch)
    /\ WF_vars(AdapterReturns)
    /\ \A r \in Ids : WF_vars(Emit(r))

(***************************************************************************)
(* Claims                                                                  *)
(***************************************************************************)
ResponsesFor(r) == {i \in 1..Len(responses) : responses[i].id = r}
CallsFor(r) == {i \in 1..Len(calls) : calls[i].id = r}
HandlerDone(r) == pc[r] \in {"finished", "completed"}

C1_AtMostOne ==
    \A r \in Ids :
        /\ Cardinality(ResponsesFor(r)) <= 1
        /\ (Cardinality(ResponsesFor(r)) = 1) <=> (pc[r] = "completed")
        /\ (Cardinality(ResponsesFor(r)) = 1) => outcome[r] # NoOutcome

\* C1: every decoded Request gets exactly one Response carrying its id: never
\* two, none before its handler has completed, and one eventually once the
\* handler has completed, whether it returned or raised.
C1_ExactlyOneResponse ==
    /\ []C1_AtMostOne
    /\ \A r \in Ids : (pc[r] = "finished") ~> (Cardinality(ResponsesFor(r)) = 1)

\* a failed request is answered while the other request is still in flight
C1_Witness ==
    \E r, q \in Ids :
        /\ pc[r] = "completed" /\ outcome[r].kind = "mcp_error"
        /\ Cardinality(ResponsesFor(r)) = 1
        /\ pc[q] = "received"

\* C2: with N requests of distinct ids in flight and handlers completing in
\* any order, the Responses correspond one to one to the Requests: each
\* carries the id of its Request and the result or failure computed from that
\* Request's tool and args (and the adapter's answer to that Request's call);
\* none is lost, duplicated or attributed to another id.
C2_Correlated ==
    /\ \A i \in 1..Len(responses) :
          LET rs == responses[i]
              r == rs.id
          IN  /\ r \in Ids
              /\ pc[r] = "completed"
              /\ rs = Response(r, Handler(req[r].tool, req[r].args, reply[r]))
              /\ (req[r].tool = "get_object" /\ reply[r] = ClientError("NoSuchKey", "msg"))
                    => rs.error = [kind |-> "NotFound",
                                   message |-> <<"Object not found: s3://",
                                                 req[r].args.bucket_name.s, "/",
                                                 req[r].args.key.s>>]
    /\ \A i, j \in 1..Len(responses) : i # j => responses[i].id # responses[j].id
    /\ \A r \in Ids : pc[r] = "completed" => ResponsesFor(r) # {}
    /\ \A i \in 1..Len(calls) :
          LET c == calls[i]
          IN  /\ c.id \in Ids
              /\ c.op = HandlerCall(req[c.id].tool, req[c.id].args).op
              /\ c.params = HandlerCall(req[c.id].tool, req[c.id].args).params

\* all requests answered, in the exact reverse of their arrival order, with
\* different requests
C2_Witness ==
    /\ \A r \in Ids : pc[r] = "completed"
    /\ Len(responses) = MaxRequests
    /\ \A i \in 1..Len(responses) : responses[i].id = MaxRequests + 1 - i
    /\ \A r, q \in Ids : r # q => req[r] # req[q]
    /\ \E r \in Ids : outcome[r].kind = "success"
    /\ \E r \in Ids : outcome[r].kind = "mcp_error"

\* C3: awaiting an adapter call is a suspension point: while one Request's
\* adapter call has started and not returned, the scheduler is free, so a
\* second Request that has been received can be dispatched.
C3_AdapterCallSuspends ==
    \A r, q \in Ids :
        (pc[r] = "calling" /\ pc[q] = "received") => ENABLED StartHandler(q)

\* what the code does instead: no handler starts and no Response is written
\* while an adapter call is outstanding
C3_HandlersNeverOverlap ==
    /\ Cardinality({r \in Ids : pc[r] = "calling"}) <= 1
    /\ \A r \in Ids : pc[r] = "calling" =>
          running = r /\ ~(\E q \in Ids : ENABLED StartHandler(q) \/ ENABLED Emit(q))

(***************************************************************************)
(* Claims about one request (HandlerSpec)                                  *)
(***************************************************************************)
Started(r) == pc[r] \in {"calling", "finished", "completed"}
Absent(args, f) == f \notin DOMAIN args
Null(args, f) == f \in DOMAIN args /\ args[f] = None
Blank(args, f) == f \in DOMAIN args /\ args[f] = StrV("")

RejectedBeforeAnyCall(r) ==
    /\ pc[r] # "calling"
    /\ outcome[r].kind = "mcp_error"
    /\ outcome[r].errorKind = "InvalidParams"
    /\ CallsFor(r) = {}

C5_NoRawExceptionEscapes ==
    \A r \in Ids :
        HandlerDone(r) =>
            /\ outcome[r].kind \in {"success", "mcp_error"}
            /\ outcome[r].kind = "mcp_error" => outcome[r].errorKind \in ErrorCode
            /\ reply[r].kind \in {"ClientError", "exception"} => outcome[r].kind = "mcp_error"

\* the table of section 4.5, read for the RDS Data API conditions
C6_Table(rep) ==
    CASE rep.kind = "ClientError" /\ rep.code = "BadRequestException" -> "InvalidRequest"
      [] rep.kind = "ClientError" /\ rep.code = "StatementTimeoutException" -> "Timeout"
      [] rep.kind = "ClientError" /\ rep.code = "ForbiddenException" -> "PermissionDenied"
      [] rep.kind = "ClientError" /\ rep.code = "NotFoundException" -> "NotFound"
      [] rep.kind = "ClientError" /\ rep.code = "ServiceUnavailableError" -> "Unavailable"
      [] OTHER -> "InternalError"

\* C6: for execute_sql the provider condition decides the ErrorKind by the
\* table of section 4.5; no code, an unknown code and any other exception
\* give InternalError.
C6_SqlErrorTranslation ==
    \A r \in Ids :
        (HandlerDone(r) /\ req[r].tool = "execute_sql") =>
            /\ reply[r].kind \in {"ClientError", "exception"} =>
                  /\ outcome[r].kind = "mcp_error"
                  /\ outcome[r].errorKind = C6_Table(reply[r])
            /\ (CallsFor(r) = {} /\ ~execute_sql_missing(req[r].args)) =>
                  /\ outcome[r].kind = "mcp_error"
                  /\ outcome[r].errorKind = "InternalError"
            /\ outcome[r].kind = "mcp_error" =>
                  outcome[r].errorKind \in {"InvalidParams", "InvalidRequest", "Timeout",
                      "PermissionDenied", "NotFound", "Unavailable", "InternalError"}

SqlAnswered(r, code, kind) ==
    /\ pc[r] = "completed"
    /\ req[r].tool = "execute_sql"
    /\ reply[r] = ClientError(code, "msg")
    /\ responses[1].error.kind = kind

C6_Witness == SqlAnswered(1, "StatementTimeoutException", "Timeout")

\* each of the six ErrorKinds of the table is reached from some adapter condition
C6_ReachInvalidRequest == SqlAnswered(1, "BadRequestException", "InvalidRequest")
C6_ReachPermissionDenied == SqlAnswered(1, "ForbiddenException", "PermissionDenied")
C6_ReachNotFound == SqlAnswered(1, "NotFoundException", "NotFound")
C6_ReachUnavailable == SqlAnswered(1, "ServiceUnavailableError", "Unavailable")
C6_ReachInternalErrorNoCode == SqlAnswered(1, NoCode, "InternalError")
C6_ReachInternalErrorException ==
    /\ pc[1] = "completed" /\ req[1].tool = "execute_sql"
    /\ reply[1].kind = "exception"
    /\ responses[1].error.kind = "InternalError"

\* C7: whenever the adapter signals that the referenced resource (object,
\* database, bucket) is absent, the Failure kind is NotFound, for every tool.
AbsentResourceCodes == {"NoSuchKey", "NoSuchBucket", "NotFoundException"}

C7_AbsentResourceIsNotFound ==
    \A r \in Ids :
        (HandlerDone(r) /\ reply[r].kind = "ClientError" /\ reply[r].code \in AbsentResourceCodes)
            => (outcome[r].kind = "mcp_error" /\ outcome[r].errorKind = "NotFound")

(***************************************************************************)
(* Claims about record formatting (FmtSpec)                                *)
(***************************************************************************)
Recognized(field) ==
    \/ \E t \in {"stringValue", "longValue", "doubleValue", "booleanValue", "blobValue"} :
           HasTag(field, t)
    \/ (HasTag(field, "isNull") /\ TagValue(field, "isNull") = BoolV(TRUE))

UnsupportedMarkers ==
    {StrV("Unsupported type: " \o t) : t \in {"", "arrayValue", "isNull"}}

Formatted(r) ==
    /\ HandlerDone(r)
    /\ req[r].tool = "execute_sql"
    /\ Truthy(Get(req[r].args, "include_result_metadata"))
    /\ reply[r].kind = "ok"
    /\ {"records", "columnMetadata"} \subseteq DOMAIN reply[r].body

DistinctLabels(columns) ==
    \A i, j \in 1..Len(columns) : i # j => columns[i].label # columns[j].label

\* C8: a field that matches none of the recognized tags (an unknown tag, an
\* empty map, isNull set to false) is formatted as the `Unsupported type`
\* marker without raising, and every sibling field and every other row is
\* still returned.
C8_UnsupportedFieldIsMarked ==
    \A r \in Ids :
        LET records == reply[r].body.records
            columns == reply[r].body.columnMetadata
        IN  (/\ Formatted(r)
             /\ DistinctLabels(columns)
             /\ \A j \in 1..Len(records) : Len(records[j]) = Len(columns))
            => /\ outcome[r].kind = "success"
               /\ Len(outcome[r].result.records) = Len(records)
               /\ \A j \in 1..Len(records) :
                     /\ DOMAIN outcome[r].result.records[j] = {columns[i].label : i \in 1..Len(columns)}
                     /\ \A i \in 1..Len(columns) :
                           ~Recognized(records[j][i]) =>
                               outcome[r].result.records[j][columns[i].label] \in UnsupportedMarkers

\* C9: when some row has more or fewer values than there are columns, the
\* execute_sql request ends in a Failure of kind InternalError.
C9_ArityMismatchIsInternalError ==
    \A r \in Ids :
        (Formatted(r) /\ \E j \in 1..Len(reply[r].body.records) :
                             Len(reply[r].body.records[j]) # Len(reply[r].body.columnMetadata))
            => (outcome[r].kind = "mcp_error" /\ outcome[r].errorKind = "InternalError")

\* what the code does: only a row longer than the columns fails the request
C9_LongerRowIsInternalError ==
    \A r \in Ids :
        (Formatted(r) /\ \E j \in 1..Len(reply[r].body.records) :
                             Len(reply[r].body.records[j]) > Len(reply[r].body.columnMetadata))
            => (outcome[r].kind = "mcp_error" /\ outcome[r].errorKind = "InternalError")

(***************************************************************************)
(* Claims about start-up (Spec)                                            *)
(***************************************************************************)
EnvAbsent(v) == v = NoEnv \/ v = ""
ConfigAbsent == server = "sql" /\ (EnvAbsent(env.DB_CLUSTER_ARN) \/ EnvAbsent(env.DB_SECRET_ARN))

\* C10: if the cluster identifier or the secret identifier is unset or empty
\* at process start, the sql server exits with a non-zero status and no
\* request is ever received, dispatched or answered; whenever a request is
\* being served both identifiers are set and have the value read at start-up.
C10_MissingConfigIsFatal ==
    /\ (ConfigAbsent /\ proc # "init") => (proc = "exited" /\ exitStatus > 0)
    /\ ConfigAbsent =>
          /\ \A r \in Ids : pc[r] = "none" /\ req[r] = NoReq
          /\ calls = << >> /\ responses = << >>
    /\ (server = "sql" /\ \E r \in Ids : pc[r] # "none") =>
          /\ ~EnvAbsent(CLUSTER_ARN) /\ CLUSTER_ARN = env.DB_CLUSTER_ARN
          /\ ~EnvAbsent(SECRET_ARN) /\ SECRET_ARN = env.DB_SECRET_ARN
    /\ \A i \in 1..Len(calls) :
          calls[i].op = "execute_statement" =>
              /\ calls[i].params.resourceArn = env.DB_CLUSTER_ARN
              /\ calls[i].params.secretArn = env.DB_SECRET_ARN
              /\ ~EnvAbsent(calls[i].params.resourceArn)
              /\ ~EnvAbsent(calls[i].params.secretArn)

\* the cluster identifier is set, the secret identifier is empty, and the
\* process has exited with status 1
C10_Witness ==
    /\ server = "sql"
    /\ env.DB_CLUSTER_ARN = "arn:cluster" /\ env.DB_SECRET_ARN = ""
    /\ proc = "exited" /\ exitStatus = 1

\* a request is being served by the sql server
C10_ServingWitness ==
    /\ server = "sql" /\ pc[1] = "calling"
    /\ calls[1].params.resourceArn = "arn:cluster"


(***************************************************************************)
(* Claims about end-of-stream (FairSpec)                                   *)
(***************************************************************************)
InFlight(r) == pc[r] \in {"received", "calling", "finished"}

\* C11: after the transport reports end-of-stream no further Request is
\* accepted, every Request in flight at that moment still gets its Response,
\* and only then does the server stop; end-of-stream is not reported as an
\* error (no Response is written for it and the exit status is 0).
C11_DrainOnEndOfStream ==
    /\ [][eof => \A r \in Ids : pc[r] = "none" => (pc'[r] = "none" /\ req'[r] = NoReq)]_vars
    /\ [][eof' # eof => (responses' = responses /\ proc' = proc /\ pc' = pc)]_vars
    /\ [](proc = "stopped" =>
            /\ eof
            /\ exitStatus = 0
            /\ \A r \in Ids : ~InFlight(r)
            /\ Len(responses) = Cardinality({r \in Ids : pc[r] = "completed"}))
    /\ \A r \in Ids : (eof /\ InFlight(r)) ~> (pc[r] = "completed" /\ ResponsesFor(r) # {})

\* the stream has ended and a request received before that is in its adapter
\* call, while another one still waits for its handler
C11_Witness ==
    /\ eof /\ proc = "serving"
    /\ \E r, q \in Ids : pc[r] = "calling" /\ pc[q] = "received"

\* the server has stopped after answering every request
C11_StoppedWitness ==
    /\ proc = "stopped"
    /\ \A r \in Ids : pc[r] = "completed"


(***************************************************************************)
(* Claims about the call a valid request makes (HandlerSpec)               *)
(***************************************************************************)
\* the Python type a JSON Schema type name stands for
IsOfType(v, type) ==
    CASE type = "string" -> v.ty = "str"
      [] type = "integer" -> v.ty = "int"
      [] type = "boolean" -> v.ty = "bool"
      [] type = "array" -> v.ty = "list"

\* every required field present, every present field declared and of its
\* declared type (so none is null)
SatisfiesSchema(tool, args) ==
    /\ Required(tool) \subseteq DOMAIN args
    /\ DOMAIN args \subseteq DOMAIN Properties(tool)
    /\ \A f \in DOMAIN args : IsOfType(args[f], Properties(tool)[f])

Supplied(args, f, default) == IF f \in DOMAIN args THEN args[f] ELSE default

ConfiguredDefaultDatabase ==
    IF env.DEFAULT_DB_NAME = NoEnv THEN "postgres" ELSE env.DEFAULT_DB_NAME

\* the adapter parameters the claim expects, apart from `parameters`
ExpectedParams(tool, args) ==
    CASE tool = "list_buckets" -> << >>
      [] tool = "list_objects" ->
           [Bucket |-> args.bucket_name,
            Prefix |-> Supplied(args, "prefix", StrV("")),
            MaxItems |-> Supplied(args, "max_keys", IntV(1000))]
      [] tool = "get_object" -> [Bucket |-> args.bucket_name, Key |-> args.key]
      [] tool = "put_object" ->
           [Bucket |-> args.bucket_name, Key |-> args.key,
            Body |-> BytesV(args.content.s),
            ContentType |-> Supplied(args, "content_type", StrV("text/plain"))]
      [] tool = "delete_object" -> [Bucket |-> args.bucket_name, Key |-> args.key]
      [] tool = "execute_sql" ->
           [resourceArn |-> env.DB_CLUSTER_ARN,
            secretArn |-> env.DB_SECRET_ARN,
            database |-> Supplied(args, "database_name", StrV(ConfiguredDefaultDatabase)),
            sql |-> args.sql_statement,
            includeResultMetadata |-> Supplied(args, "include_result_metadata", BoolV(FALSE)),
            continueAfterTimeout |-> Supplied(args, "continue_after_timeout", BoolV(FALSE))]

ExpectedOp(tool) ==
    CASE tool = "list_buckets" -> "list_buckets"
      [] tool = "list_objects" -> "list_objects_v2"
      [] tool = "get_object" -> "get_object"
      [] tool = "put_object" -> "put_object"
      [] tool = "delete_object" -> "delete_object"
      [] tool = "execute_sql" -> "execute_statement"

\* request r made exactly one adapter call, with the operation and parameters p
CalledOnceWith(r, p) ==
    /\ ~(outcome[r].kind = "mcp_error" /\ outcome[r].errorKind = "InvalidParams")
    /\ Cardinality(CallsFor(r)) = 1
    /\ \A i \in CallsFor(r) : calls[i].op = ExpectedOp(req[r].tool) /\ calls[i].params = p

\* C12 as stated: every args mapping that satisfies the tool's input schema
\* passes validation and makes exactly one adapter call, with the supplied
\* values and the declared default for every omitted optional field.
C12_Original ==
    \A r \in Ids :
        (Started(r) /\ SatisfiesSchema(req[r].tool, req[r].args)) =>
            LET args == req[r].args
                p == ExpectedParams(req[r].tool, args)
            IN  CalledOnceWith(r, IF "parameters" \in DOMAIN args
                                  THEN [parameters |-> args.parameters] @@ p
                                  ELSE p)

\* a required field that validation refuses although it is a string
BlankRequired(tool, args) ==
    \E f \in Required(tool) : Blank(args, f) /\ ~(tool = "put_object" /\ f = "content")

\* C12 as amended: every args mapping that satisfies the tool's input schema
\* and leaves no required field blank (the content of put_object may be blank)
\* passes validation and makes exactly one adapter call, with the supplied
\* values and the declared default for every omitted optional field; an empty
\* `parameters` list is left out of the call.
C12_ValidArgsCallOnceWithDefaults ==
    \A r \in Ids :
        (/\ Started(r)
         /\ SatisfiesSchema(req[r].tool, req[r].args)
         /\ ~BlankRequired(req[r].tool, req[r].args)) =>
            LET args == req[r].args
                p == ExpectedParams(req[r].tool, args)
            IN  CalledOnceWith(r, IF "parameters" \in DOMAIN args /\ args.parameters # ListV(<< >>)
                                  THEN [parameters |-> args.parameters] @@ p
                                  ELSE p)

\* list_objects with only its bucket is being called with the two defaults
C12_Witness ==
    \E r \in Ids :
        /\ pc[r] = "calling"
        /\ req[r] = [tool |-> "list_objects", args |-> [bucket_name |-> StrV("b")]]
        /\ \E i \in CallsFor(r) :
              calls[i].params = [Bucket |-> StrV("b"), Prefix |-> StrV(""), MaxItems |-> IntV(1000)]

\* execute_sql with only its statement, with no DEFAULT_DB_NAME in the
\* environment, is being called on database "postgres" with both flags false
C12_SqlWitness ==
    \E r \in Ids :
        /\ pc[r] = "calling"
        /\ env.DEFAULT_DB_NAME = NoEnv
        /\ req[r] = [tool |-> "execute_sql", args |-> [sql_statement |-> StrV("SELECT 1")]]
        /\ \E i \in CallsFor(r) :
              /\ calls[i].params.database = StrV("postgres")
              /\ calls[i].params.includeResultMetadata = BoolV(FALSE)
              /\ calls[i].params.continueAfterTimeout = BoolV(FALSE)
              /\ "parameters" \notin DOMAIN calls[i].params

\* put_object with a blank content and no content_type is being called
C12_BlankContentWitness ==
    \E r \in Ids :
        /\ pc[r] = "calling"
        /\ req[r].tool = "put_object"
        /\ req[r].args = [bucket_name |-> StrV("b"), key |-> StrV("k"), content |-> StrV("")]
        /\ \E i \in CallsFor(r) :
              calls[i].params.Body = BytesV("") /\ calls[i].params.ContentType = StrV("text/plain")


(***************************************************************************)
(* Claims about the result of execute_sql (HandlerSpec)                    *)
(***************************************************************************)
SqlSucceeded(r) ==
    /\ HandlerDone(r)
    /\ req[r].tool = "execute_sql"
    /\ ~execute_sql_missing(req[r].args)
    /\ Sliceable(req[r].args.sql_statement)
    /\ reply[r].kind = "ok"

RowsAffected(body) ==
    IF "numberOfRecordsUpdated" \in DOMAIN body THEN body.numberOfRecordsUpdated ELSE IntV(0)

\* C13 as stated: with include_result_metadata absent, the Success result has
\* records_updated equal to the adapter's rowsAffected (0 when it reports
\* none) and has no `records` key, whatever the adapter returns.
C13_Original ==
    \A r \in Ids :
        (SqlSucceeded(r) /\ Absent(req[r].args, "include_result_metadata")) =>
            /\ outcome[r].kind = "success"
            /\ outcome[r].result.records_updated = RowsAffected(reply[r].body)
            /\ "records" \notin DOMAIN outcome[r].result

\* C13 as amended: with include_result_metadata absent, the Success result has
\* records_updated equal to the adapter's rowsAffected (0 when it reports
\* none); it has no `records` key when the adapter's response has none, and
\* otherwise carries the adapter's records as they are, still tagged, and no
\* column metadata.
C13_NoMetadataResult ==
    \A r \in Ids :
        (SqlSucceeded(r) /\ Absent(req[r].args, "include_result_metadata")) =>
            /\ outcome[r].kind = "success"
            /\ outcome[r].result.records_updated = RowsAffected(reply[r].body)
            /\ "column_metadata" \notin DOMAIN outcome[r].result
            /\ IF "records" \in DOMAIN reply[r].body
               THEN /\ "records" \in DOMAIN outcome[r].result
                    /\ outcome[r].result.records = reply[r].body.records
               ELSE "records" \notin DOMAIN outcome[r].result

\* a statement sent without the flag is answered with the rows affected and
\* no records
C13_Witness ==
    \E r \in Ids :
        /\ pc[r] = "completed"
        /\ SqlSucceeded(r) /\ Absent(req[r].args, "include_result_metadata")
        /\ reply[r].body = [numberOfRecordsUpdated |-> IntV(3)]
        /\ outcome[r].result.records_updated = IntV(3)
        /\ "records" \notin DOMAIN outcome[r].result

\* a statement sent without the flag is answered with the adapter's rows
C13_RawRecordsWitness ==
    \E r \in Ids :
        /\ pc[r] = "completed"
        /\ SqlSucceeded(r) /\ Absent(req[r].args, "include_result_metadata")
        /\ outcome[r].kind = "success"
        /\ outcome[r].result.records = OneRow
        /\ outcome[r].result.records_updated = IntV(0)


(***************************************************************************)
(* Claims about the decoding of one field (CodecSpec)                      *)
(***************************************************************************)
\* request r was answered by the adapter with one row of one field
OneField(r) ==
    /\ Formatted(r)
    /\ Len(reply[r].body.records) = 1
    /\ Len(reply[r].body.records[1]) = 1
    /\ Len(reply[r].body.columnMetadata) = 1

TheField(r) == reply[r].body.records[1][1]
TheLabel(r) == reply[r].body.columnMetadata[1].label

\* the field of request r was decoded to v
DecodedTo(r, v) ==
    /\ outcome[r].kind = "success"
    /\ Len(outcome[r].result.records) = 1
    /\ DOMAIN outcome[r].result.records[1] = {TheLabel(r)}
    /\ outcome[r].result.records[1][TheLabel(r)] = v

\* the TaggedValue that carries a canonical scalar
Encode(v) ==
    CASE v.ty = "str" -> <<<<"stringValue", v>>>>
      [] v.ty = "int" -> <<<<"longValue", v>>>>
      [] v.ty = "float" -> <<<<"doubleValue", v>>>>
      [] v.ty = "bool" -> <<<<"booleanValue", v>>>>
      [] v.ty = "none" -> <<<<"isNull", BoolV(TRUE)>>>>

Scalars ==
    {None} \cup UNION {TagValues(t) : t \in {"stringValue", "longValue", "doubleValue", "booleanValue"}}

\* a text that is a function of the byte length only
Placeholder(n) == StrV("BLOB (length: " \o ToString(n) \o ")")

\* C14: a field with exactly one recognized tag that carries a string, an
\* integer, a double, a boolean or null decodes to exactly the carried value,
\* falsy values included, so that decoding the encoding of a scalar gives the
\* scalar back; a blob never decodes to its bytes, only to a placeholder that
\* depends on the byte length alone.
C14_SingleTagRoundTrip ==
    \A r \in Ids :
        (OneField(r) /\ Len(TheField(r)) = 1) =>
            LET tag == TheField(r)[1][1]
                carried == TheField(r)[1][2]
            IN  /\ tag \in {"stringValue", "longValue", "doubleValue", "booleanValue"}
                      => DecodedTo(r, carried)
                /\ (tag = "isNull" /\ carried = BoolV(TRUE)) => DecodedTo(r, None)
                /\ \A v \in Scalars : TheField(r) = Encode(v) => DecodedTo(r, v)
                /\ tag = "blobValue" =>
                      /\ DecodedTo(r, Placeholder(Len(carried.q)))
                      /\ ~DecodedTo(r, carried)
                      /\ outcome[r].result.records[1][TheLabel(r)].ty = "str"

\* an empty string was decoded to an empty string
C14_Witness ==
    \E r \in Ids :
        /\ pc[r] = "completed" /\ OneField(r)
        /\ TheField(r) = <<<<"stringValue", StrV("")>>>>
        /\ DecodedTo(r, StrV(""))

C14_ZeroWitness ==
    \E r \in Ids : OneField(r) /\ TheField(r) = Encode(IntV(0)) /\ DecodedTo(r, IntV(0))
C14_FalseWitness ==
    \E r \in Ids : OneField(r) /\ TheField(r) = Encode(BoolV(FALSE)) /\ DecodedTo(r, BoolV(FALSE))
C14_NullWitness ==
    \E r \in Ids : OneField(r) /\ TheField(r) = Encode(None) /\ DecodedTo(r, None)
C14_BlobWitness ==
    \E r \in Ids : /\ OneField(r) /\ TheField(r) = <<<<"blobValue", BytesV("cd")>>>>
                   /\ DecodedTo(r, StrV("BLOB (length: 2)"))

ValueTags == <<"stringValue", "longValue", "doubleValue", "booleanValue", "blobValue">>
ValueTagsOf(field) == {i \in 1..Len(ValueTags) : HasTag(field, ValueTags[i])}

\* what the tag alone decodes to
DecodeTag(tag, carried) ==
    IF tag = "blobValue" THEN Placeholder(Len(carried.q)) ELSE carried

\* C17: a field with more than one tag decodes by the fixed priority
\* stringValue > longValue > doubleValue > booleanValue > blobValue > isNull:
\* the result is that of the highest-priority tag present, whatever the other
\* tags and the order in which the field lists them; isNull = true next to a
\* value tag gives the value, and null comes out only when isNull is true and
\* no value tag is present.
C17_TagPriority ==
    \A r \in Ids :
        (OneField(r) /\ Len(TheField(r)) > 1) =>
            LET field == TheField(r)
                present == ValueTagsOf(field)
                top == ValueTags[CHOOSE i \in present : \A j \in present : i <= j]
            IN  /\ present # {} => DecodedTo(r, DecodeTag(top, TagValue(field, top)))
                /\ present # {} => ~DecodedTo(r, None)
                /\ (present = {} /\ HasTag(field, "isNull") /\ TagValue(field, "isNull") = BoolV(TRUE))
                      => DecodedTo(r, None)
                /\ DecodedTo(r, None) =>
                      (present = {} /\ HasTag(field, "isNull") /\ TagValue(field, "isNull") = BoolV(TRUE))

\* isNull = true listed before a zero integer: the integer comes out
C17_Witness ==
    \E r \in Ids :
        /\ pc[r] = "completed" /\ OneField(r)
        /\ TheField(r) = <<<<"isNull", BoolV(TRUE)>>, <<"longValue", IntV(0)>>>>
        /\ DecodedTo(r, IntV(0))

\* all seven tags, listed from the lowest priority to the highest: the string
C17_AllTagsWitness ==
    \E r \in Ids :
        /\ OneField(r) /\ Len(TheField(r)) = Len(TagOrder)
        /\ TheField(r)[1][1] = "arrayValue"
        /\ DecodedTo(r, StrV("x"))

\* isNull = true next to an unknown tag only: null
C17_NullWitness ==
    \E r \in Ids :
        /\ OneField(r)
        /\ TheField(r) = <<<<"arrayValue", ListV(<< >>)>>, <<"isNull", BoolV(TRUE)>>>>
        /\ DecodedTo(r, None)


(***************************************************************************)
(* Claims about the rows of a result (FmtSpec)                             *)
(***************************************************************************)
\* a TaggedValue: exactly one tag, a recognized one
WellFormed(field) == Len(field) = 1 /\ Recognized(field)

\* what a well-formed field decodes to
Decode(field) ==
    IF field[1][1] = "isNull" THEN None ELSE DecodeTag(field[1][1], field[1][2])

MatchingArity(records, columns) ==
    \A j \in 1..Len(records) :
        /\ Len(records[j]) = Len(columns)
        /\ \A i \in 1..Len(columns) : WellFormed(records[j][i])

\* the rows of the result: one mapping per row and in the order of the rows,
\* each with one entry per column and the i-th value under the i-th label
AlignedRows(r, records, columns) ==
    /\ outcome[r].kind = "success"
    /\ Len(outcome[r].result.records) = Len(records)
    /\ \A j \in 1..Len(records) :
          LET row == outcome[r].result.records[j]
          IN  /\ DOMAIN row = {columns[i].label : i \in 1..Len(columns)}
              /\ Cardinality(DOMAIN row) = Len(columns)
              /\ \A i \in 1..Len(columns) : row[columns[i].label] = Decode(records[j][i])

\* C15: formatting rows whose arity matches the columns returns one mapping
\* per row, in the order of the rows, with the i-th value of the row under the
\* label of the i-th column and exactly one entry per column: no row loses a
\* value, also when two columns carry the same label.
C15_OneEntryPerColumn ==
    \A r \in Ids :
        (Formatted(r) /\ MatchingArity(reply[r].body.records, reply[r].body.columnMetadata))
            => AlignedRows(r, reply[r].body.records, reply[r].body.columnMetadata)

\* what the code does: the rows are aligned when the labels are distinct
C15_AlignedWhenLabelsDistinct ==
    \A r \in Ids :
        (/\ Formatted(r)
         /\ MatchingArity(reply[r].body.records, reply[r].body.columnMetadata)
         /\ DistinctLabels(reply[r].body.columnMetadata))
            => AlignedRows(r, reply[r].body.records, reply[r].body.columnMetadata)

\* two columns with one label: the row of two values comes back with one entry
C15_RowLosesValue ==
    \E r \in Ids :
        /\ Formatted(r)
        /\ reply[r].body.columnMetadata = <<[label |-> "a"], [label |-> "a"]>>
        /\ reply[r].body.records = <<<<<<<<"stringValue", StrV("x")>>>>, <<<<"longValue", IntV(0)>>>>>>>>
        /\ outcome[r].kind = "success"
        /\ outcome[r].result.records = <<[a |-> IntV(0)]>>


(***************************************************************************)
(* Claims about retries (Spec)                                             *)
(***************************************************************************)
AdapterFailed(r) == reply[r].kind \in {"ClientError", "exception"}

\* C16: no request invokes its adapter operation more than once; when the
\* invocation fails the handler ends at once, without another invocation, and
\* the request completes with exactly one Response, a Failure.
C16_NeverRetries ==
    \A r \in Ids :
        /\ Cardinality(CallsFor(r)) <= 1
        /\ pc[r] = "calling" => (Cardinality(CallsFor(r)) = 1 /\ reply[r] = NoReply)
        /\ AdapterFailed(r) =>
              /\ HandlerDone(r)
              /\ Cardinality(CallsFor(r)) = 1
              /\ outcome[r].kind \in {"mcp_error", "raw_exception"}
              /\ pc[r] = "completed" =>
                    /\ Cardinality(ResponsesFor(r)) = 1
                    /\ \A i \in ResponsesFor(r) :
                          "error" \in DOMAIN responses[i] /\ "result" \notin DOMAIN responses[i]

\* a request whose call failed is answered with a Failure while the other
\* request's call, made after the failure, has succeeded
C16_Witness ==
    \E r, q \in Ids :
        /\ pc[r] = "completed" /\ AdapterFailed(r)
        /\ Cardinality(CallsFor(r)) = 1
        /\ \E i \in ResponsesFor(r) : "error" \in DOMAIN responses[i]
        /\ r < q /\ pc[q] = "finished" /\ reply[q].kind = "ok"
        /\ Cardinality(CallsFor(q)) = 1

=============================================================================
